---- MODULE Spec2Model ----
(***************************************************************************)
(* Model of the ASL recognizer: the four HMM model selectors of            *)
(* my_model_selectors.py (Constant, BIC, DIC, CV) and recognize() of       *)
(* my_recognizer.py.                                                       *)
(*                                                                         *)
(* External collaborators (GaussianHMM.fit, GaussianHMM.score, KFold) are  *)
(* modelled as nondeterministic outcomes: a fit succeeds or raises, a      *)
(* score returns a log-likelihood or raises.                               *)
(*                                                                         *)
(* Floating point values are modelled as extended integers <<k, v>>:       *)
(*   <<-1, 0>> is float('-inf'), <<0, v>> the finite value v and           *)
(*   <<1, 0>> float('inf'); they are ordered lexicographically.  NaN is    *)
(* not modelled.                                                           *)
(***************************************************************************)
EXTENDS Integers, Sequences, FiniteSets, TLC

\* ------------------------------------------------------------------ bounds
MaxScore == 2
MaxItems == 2
MaxComponents == 3
MaxSeqs == 5
MaxDim == 2
MaxCalls == 1

\* The vocabulary the corpora and word->model mappings are drawn from.
Words == {"FISH", "RARE", "BOOK"}

\* ------------------------------------------------------- extended numbers
NegInf == <<-1, 0>>
PosInf == <<1, 0>>
Fin(v) == <<0, v>>
IsFin(a) == a[1] = 0

LtExt(a, b) == a[1] < b[1] \/ (a[1] = b[1] /\ a[2] < b[2])
LeExt(a, b) == a = b \/ LtExt(a, b)
GtExt(a, b) == LtExt(b, a)

\* What model.score(X, lengths) can do: return a log-likelihood (finite, or
\* negative infinity) or raise.
ScoreFailure == <<2, 0>>
LogLs == {NegInf} \cup {Fin(0 - v) : v \in 0..MaxScore}
ScoreOutcomes == {ScoreFailure} \cup LogLs

\* A fitted model is identified by its state count and the sequences it was
\* trained on; None is the record with no states.
Model(num_states, data) == [n |-> num_states, X |-> data]
Null == [n |-> 0, X |-> {}]

VARIABLES
  \* ---- recognize()
  models,               \* word -> model (Null for a failed selection)
  keys,                 \* list(models.keys()): the mapping's iteration order
  num_items,            \* test_set.num_items
  i,                    \* index of the test item being scored (0-based)
  k,                    \* position of the inner loop in keys (1-based)
  test_word_logL_dict,  \* the item's word -> logL mapping being filled
  probabilities,
  guesses,
  rpc,                  \* "loop", "done" or "raised"
  raisedAt,             \* history: the <<item, word>> pairs whose score raised
  \* ---- ModelSelector.__init__
  min_n_components,
  max_n_components,
  this_word,
  hkeys,                \* list(self.hwords.keys()): the corpus words, in order
  nseq,                 \* len(self.sequences): this word's sequences are 1..nseq
  dim,                  \* len(self.X[0]): the number of features
  X,                    \* self.X, self.lengths: the sequences now trained on
  \* ---- select()
  pc,                   \* "start", "loop", "fold", "break", "done" or "raised"
  num_components,       \* the loop variable num_compoments
  best_model,
  result,               \* what select() returned
  log,                  \* history: the base_model calls, [n, X, ok]
  lowest_BIC,
  scored,               \* history: state count -> logL, for the counts scored
  highest_DIC,
  antiScores,           \* history: the latest anti-likelihood list, <<word, logL>>
  highest_CV,
  best_num_components,
  n_splits,             \* the fold count KFold() asks for
  fold,                 \* the fold of split() being evaluated (1-based)
  lastFit,              \* history: the latest base_model call, [n, X, ok]
  splitCalls,           \* history: how often split() was invoked in this call
  calls,                \* history: select() calls finished on this instance
  foldBest              \* history: state count -> its best fold score

rvars == <<models, keys, num_items, i, k, test_word_logL_dict, probabilities,
           guesses, rpc, raisedAt>>
cfgvars == <<min_n_components, max_n_components, this_word, hkeys, nseq, dim,
             n_splits>>
selvars == <<X, pc, num_components, best_model, result, log>>
bvars == <<lowest_BIC, scored>>
dvars == <<highest_DIC, antiScores>>
cvars == <<highest_CV, best_num_components, fold, lastFit, splitCalls, calls,
           foldBest>>

vars == <<rvars, cfgvars, selvars, bvars, dvars, cvars>>

\* ============================================================ recognize()

EmptyDict == [w \in {} |-> NegInf]

\* Lines 28-31: logL = models[word].score(X, lengths), any exception (a score
\* failure, or the AttributeError of None.score) giving float('-inf').
RecLogLZero(model, outcome) ==
  IF model = Null \/ outcome = ScoreFailure THEN Fin(0) ELSE outcome

RecLogL(model, outcome) ==
  IF model = Null \/ outcome = ScoreFailure THEN NegInf ELSE outcome

\* sorted(items, key = value, reverse = True): a stable sort, so that items of
\* equal value keep the order they have in items.  Insertion sort.
RECURSIVE InsertDesc(_, _)
InsertDesc(item, sorted) ==
  IF sorted = <<>> THEN <<item>>
  ELSE IF LtExt(sorted[1][2], item[2])
       THEN <<item>> \o sorted
       ELSE <<sorted[1]>> \o InsertDesc(item, Tail(sorted))

RECURSIVE SortedDescFrom(_, _)
SortedDescFrom(items, done) ==
  IF items = <<>> THEN done
  ELSE SortedDescFrom(SubSeq(items, 1, Len(items) - 1),
                      InsertDesc(items[Len(items)], done))

SortedDesc(items) == SortedDescFrom(items, <<>>)

\* test_word_logL_dict.items(), in insertion order (the order of keys).
Items(dict) == [j \in 1..Len(keys) |-> <<keys[j], dict[keys[j]]>>]

RECURSIVE Perms(_)
Perms(S) ==
  IF S = {} THEN {<<>>}
  ELSE UNION {{<<w>> \o p : p \in Perms(S \ {w})} : w \in S}

\* The variables a specification does not use keep these values.
RecognizeUnused ==
  /\ models = EmptyDict /\ keys = <<>> /\ num_items = 0 /\ i = 0 /\ k = 1
  /\ test_word_logL_dict = EmptyDict /\ probabilities = <<>> /\ guesses = <<>>
  /\ rpc = "done" /\ raisedAt = {}

SelectorUnused ==
  /\ min_n_components = 2 /\ max_n_components = 2 /\ this_word = "FISH"
  /\ hkeys = <<"FISH">> /\ nseq = 1 /\ dim = 1 /\ X = {1}
  /\ pc = "done" /\ num_components = 2 /\ best_model = Null /\ result = Null
  /\ log = <<>>

BICUnused == lowest_BIC = PosInf /\ scored = EmptyDict

DICUnused == highest_DIC = NegInf /\ antiScores = <<>>

CVUnused ==
  /\ highest_CV = NegInf /\ best_num_components = 2 /\ n_splits = 5 /\ fold = 1
  /\ lastFit = <<>> /\ splitCalls = 0 /\ calls = 0 /\ foldBest = EmptyDict

\* The words of the word->model mappings recognize() is given.
RecWords == {"FISH", "RARE"}

InitRecognize ==
  /\ SelectorUnused /\ BICUnused /\ DICUnused /\ CVUnused
  /\ \E ws \in SUBSET RecWords :
       /\ keys \in Perms(ws)
       /\ models \in [ws -> {Null, Model(3, {1})}]
  /\ num_items \in 0..MaxItems
  /\ i = 0
  /\ k = 1
  /\ test_word_logL_dict = EmptyDict
  /\ probabilities = <<>>
  /\ guesses = <<>>
  /\ rpc = "loop"
  /\ raisedAt = {}

\* Lines 26-32: one turn of the inner loop.
ScoreWord ==
  /\ rpc = "loop" /\ i < num_items /\ k <= Len(keys)
  /\ \E outcome \in ScoreOutcomes :
       test_word_logL_dict' =
         (keys[k] :> RecLogL(models[keys[k]], outcome)) @@ test_word_logL_dict
       /\ raisedAt' = IF models[keys[k]] = Null \/ outcome = ScoreFailure
                      THEN raisedAt \cup {<<i + 1, keys[k]>>}
                      ELSE raisedAt
  /\ k' = k + 1
  /\ UNCHANGED <<models, keys, num_items, i, probabilities, guesses, rpc>>
  /\ UNCHANGED <<cfgvars, selvars, bvars, dvars, cvars>>

\* Lines 33-35: the item's mapping is appended, then its best word; sorted(...)[0]
\* raises IndexError when the mapping is empty.
AppendGuess ==
  /\ rpc = "loop" /\ i < num_items /\ k > Len(keys)
  /\ probabilities' = Append(probabilities, test_word_logL_dict)
  /\ IF Len(keys) = 0
     THEN /\ rpc' = "raised"
          /\ UNCHANGED <<guesses, i, k, test_word_logL_dict>>
     ELSE /\ guesses' = Append(guesses, SortedDesc(Items(test_word_logL_dict))[1][1])
          /\ i' = i + 1
          /\ k' = 1
          /\ test_word_logL_dict' = EmptyDict
          /\ rpc' = rpc
  /\ UNCHANGED <<models, keys, num_items, raisedAt>>
  /\ UNCHANGED <<cfgvars, selvars, bvars, dvars, cvars>>

\* Line 37.
RecReturn ==
  /\ rpc = "loop" /\ i >= num_items
  /\ rpc' = "done"
  /\ UNCHANGED <<models, keys, num_items, i, k, test_word_logL_dict,
                 probabilities, guesses, raisedAt>>
  /\ UNCHANGED <<cfgvars, selvars, bvars, dvars, cvars>>

NextRecognize == ScoreWord \/ AppendGuess \/ RecReturn

SpecRecognize == InitRecognize /\ [][NextRecognize]_vars

\* C1: recognize() always returns, with len(probabilities) = len(guesses) =
\* num_items and every guesses[j] a word of probabilities[j] whose score is the
\* maximum of probabilities[j], the empty mapping included.
RecognizeContract ==
  /\ rpc # "raised"
  /\ rpc = "done" =>
       /\ Len(probabilities) = num_items
       /\ Len(guesses) = num_items
       /\ \A j \in 1..num_items :
            /\ guesses[j] \in DOMAIN probabilities[j]
            /\ \A w \in DOMAIN probabilities[j] :
                 LeExt(probabilities[j][w], probabilities[j][guesses[j]])

\* C5: with a null model in the mapping recognize() does not raise, and that
\* word's score is negative infinity in the mapping of every test item; a score
\* that raised is recorded as negative infinity too.
NullModelScoresNegInf ==
  /\ (\E w \in DOMAIN models : models[w] = Null) => rpc # "raised"
  /\ \A j \in 1..Len(probabilities) : \A w \in DOMAIN models :
       /\ w \in DOMAIN probabilities[j]
       /\ (models[w] = Null \/ <<j, w>> \in raisedAt) =>
            probabilities[j][w] = NegInf
  /\ (rpc = "done" /\ \E w \in DOMAIN models : models[w] = Null) =>
       Len(probabilities) = num_items

\* C5's case: two items recognized with a null model and a trained model whose
\* score raised on one item and was finite on the other.
NullModelScoresNegInfWitness ==
  /\ rpc = "done" /\ num_items = 2 /\ Len(probabilities) = 2
  /\ \E w \in DOMAIN models : models[w] = Null
  /\ \E w \in DOMAIN models :
       /\ models[w] # Null
       /\ <<1, w>> \in raisedAt
       /\ IsFin(probabilities[2][w])

\* ========================================================= ModelSelector

\* The word's full data, all_word_Xlengths[this_word]: every sequence.
Full == 1..nseq

\* GaussianHMM(..., random_state=self.random_state).fit is deterministic: a
\* state count fitted before on the same data fits, or fails, as it did then.
FitOutcomes(num_states) ==
  IF \E j \in 1..Len(log) : log[j].n = num_states /\ log[j].X = X
  THEN {log[j].ok : j \in {m \in 1..Len(log) :
                             log[m].n = num_states /\ log[m].X = X}}
  ELSE BOOLEAN

\* base_model(num_states): the model fitted on data, the active self.X at the
\* time of the call, or None when the fit raises.
BaseModel(num_states, data, ok) == IF ok THEN Model(num_states, data) ELSE Null

Call(num_states, data, ok) == [n |-> num_states, X |-> data, ok |-> ok]

\* __init__: the search bounds are whatever the caller passes.
InitSelector ==
  /\ min_n_components \in 1..MaxComponents
  /\ max_n_components \in 1..MaxComponents
  /\ X = Full
  /\ pc = "start"
  /\ num_components = min_n_components
  /\ best_model = Null
  /\ result = Null
  /\ log = <<>>

\* ============================================================ SelectorBIC

\* np.log(N), in thousandths.
LnMilli(N) == <<0, 693, 1099, 1386, 1609, 1792, 1946, 2079>>[N]

\* Line 89.
FreeParams(num_states) == num_states * (num_states - 1) + 2 * num_states * dim

\* Lines 89-91: BIC = -2 * logL + p * np.log(N), in thousandths; logL of
\* negative infinity gives positive infinity.
BICScore(logL, num_states) ==
  IF logL = NegInf THEN PosInf
  ELSE Fin(FreeParams(num_states) * LnMilli(nseq) - 2000 * logL[2])

\* Line 92: BIC < lowest_BIC.
BICBetterOrEqual(BIC, lowest) == LeExt(BIC, lowest)

BICBetter(BIC, lowest) == LtExt(BIC, lowest)

\* Lines 85-88: the except branch leaves the loop.
BICExceptContinue(num_states) == <<"loop", num_states + 1>>

BICExcept(num_states) == <<"break", num_states>>

InitBIC ==
  /\ RecognizeUnused /\ DICUnused /\ CVUnused
  /\ this_word = "FISH" /\ hkeys = <<"FISH">>
  /\ nseq \in 1..MaxSeqs
  /\ dim \in 1..MaxDim
  /\ InitSelector
  /\ lowest_BIC = PosInf
  /\ scored = EmptyDict

\* Lines 80-82.
BICStart ==
  /\ pc = "start"
  /\ \E ok \in FitOutcomes(min_n_components) :
       /\ best_model' = BaseModel(min_n_components, X, ok)
       /\ log' = Append(log, Call(min_n_components, X, ok))
  /\ lowest_BIC' = PosInf
  /\ num_components' = min_n_components
  /\ pc' = "loop"
  /\ UNCHANGED <<X, result, scored>>
  /\ UNCHANGED <<rvars, cfgvars, dvars, cvars>>

\* Lines 83-94: one turn of the loop.
BICIter ==
  /\ pc = "loop" /\ num_components <= max_n_components
  /\ \E ok \in FitOutcomes(num_components) :
       LET model == BaseModel(num_components, X, ok) IN
       /\ log' = Append(log, Call(num_components, X, ok))
       /\ \E outcome \in (IF model = Null THEN {ScoreFailure} ELSE ScoreOutcomes) :
            IF outcome = ScoreFailure
            THEN /\ pc' = BICExcept(num_components)[1]
                 /\ num_components' = BICExcept(num_components)[2]
                 /\ UNCHANGED <<lowest_BIC, best_model, scored>>
            ELSE LET BIC == BICScore(outcome, num_components) IN
                 /\ scored' = (num_components :> outcome) @@ scored
                 /\ IF BICBetter(BIC, lowest_BIC)
                    THEN lowest_BIC' = BIC /\ best_model' = model
                    ELSE UNCHANGED <<lowest_BIC, best_model>>
                 /\ num_components' = num_components + 1
                 /\ pc' = pc
  /\ UNCHANGED <<X, result>>
  /\ UNCHANGED <<rvars, cfgvars, dvars, cvars>>

\* Line 96.
BICReturn ==
  /\ \/ pc = "loop" /\ num_components > max_n_components
     \/ pc = "break"
  /\ result' = best_model
  /\ pc' = "done"
  /\ UNCHANGED <<X, num_components, best_model, log>>
  /\ UNCHANGED <<rvars, cfgvars, bvars, dvars, cvars>>

NextBIC == BICStart \/ BICIter \/ BICReturn

SpecBIC == InitBIC /\ [][NextBIC]_vars
\* C4: after a fit failure at state count n, SelectorBIC.select() fits no state
\* count larger than n, and scores none from n on; so when min_n_components
\* fails to fit, nothing larger is evaluated.
BICStopsAtFirstFailure ==
  \A a \in 1..Len(log) :
    ~log[a].ok =>
      /\ \A b \in (a + 1)..Len(log) : log[b].n <= log[a].n
      /\ \A m \in DOMAIN scored : m < log[a].n

\* C4's case: a search that fitted a state count, then failed to fit the next
\* one with larger counts still in the range, and returned.
BICStopsAtFirstFailureWitness ==
  /\ pc = "done"
  /\ \E a \in 1..Len(log) :
       /\ ~log[a].ok
       /\ log[a].n > min_n_components
       /\ log[a].n < max_n_components

\* The BIC of C9, in thousandths, from the logL recorded for state count n.
ClaimedBIC(n) ==
  IF scored[n] = NegInf THEN PosInf
  ELSE Fin((n * (n - 1) + 2 * n * dim) * LnMilli(nseq) - 2000 * scored[n][2])

\* C9: SelectorBIC.select() returns the model of the smallest state count whose
\* BIC = -2*logL + p*ln(N), p = n*(n-1) + 2*n*d, is the minimum over the counts
\* scored before the first failure; with none scored it returns what
\* fit(min_n_components) returned.
BICReturnsMinimum ==
  pc = "done" =>
    /\ DOMAIN scored =
         {n \in min_n_components..max_n_components : n < num_components}
    /\ IF DOMAIN scored = {}
       THEN result = (IF log[1].ok THEN Model(min_n_components, Full) ELSE Null)
       ELSE \E n \in DOMAIN scored :
              /\ result = Model(n, Full)
              /\ \A m \in DOMAIN scored :
                   /\ LeExt(ClaimedBIC(n), ClaimedBIC(m))
                   /\ ClaimedBIC(m) = ClaimedBIC(n) => n <= m

\* C9's case: three state counts scored, the two largest tying for the lowest
\* BIC, and the smaller of the two returned.
BICReturnsMinimumWitness ==
  /\ pc = "done"
  /\ Cardinality(DOMAIN scored) >= 3
  /\ \E n \in DOMAIN scored :
       /\ result = Model(n, Full)
       /\ n > min_n_components
       /\ \E m \in DOMAIN scored : m > n /\ ClaimedBIC(m) = ClaimedBIC(n)
\* ============================================================ SelectorDIC

\* The scores of the DIC search are finite log-likelihoods (or the score raises).
DICOutcomes == {ScoreFailure, Fin(0 - 1), Fin(0)}

\* Line 123: for word in list(self.hwords.keys()) if word != self.this_word.
AllWords == hkeys

OtherWords == SelectSeq(hkeys, LAMBDA w : w # this_word)

RECURSIVE SumScores(_)
SumScores(scores) ==
  IF scores = <<>> THEN 0 ELSE scores[1][2] + SumScores(Tail(scores))

\* Line 122: DIC = logL - statistics.mean(scores), times len(scores): the list
\* has the same length in every turn of the loop, so the order of the DIC values
\* is kept.
DICScore(logL, scores) == Fin(Len(scores) * logL[2] - SumScores(scores))

\* Line 124: DIC > highest_DIC.
DICBetter(DIC, highest) == GtExt(DIC, highest)

InitDIC ==
  /\ RecognizeUnused /\ CVUnused
  /\ this_word = "FISH"
  /\ \E ws \in SUBSET Words : this_word \in ws /\ hkeys \in Perms(ws)
  /\ nseq = 1
  /\ dim = 1
  /\ InitSelector
  /\ lowest_BIC = PosInf
  /\ scored = EmptyDict
  /\ highest_DIC = NegInf
  /\ antiScores = <<>>

\* Lines 113-115.
DICStart ==
  /\ pc = "start"
  /\ \E ok \in FitOutcomes(min_n_components) :
       /\ best_model' = BaseModel(min_n_components, X, ok)
       /\ log' = Append(log, Call(min_n_components, X, ok))
  /\ highest_DIC' = NegInf
  /\ num_components' = min_n_components
  /\ pc' = "loop"
  /\ UNCHANGED <<X, result, antiScores>>
  /\ UNCHANGED <<rvars, cfgvars, bvars, cvars>>

\* Lines 116-126: one turn of the loop.  The scores of the other words are
\* taken outside the try: a score that raises, or statistics.mean of an empty
\* list (StatisticsError), leaves select() by the exception.
DICIter ==
  /\ pc = "loop" /\ num_components <= max_n_components
  /\ \E ok \in FitOutcomes(num_components) :
       LET model == BaseModel(num_components, X, ok) IN
       /\ log' = Append(log, Call(num_components, X, ok))
       /\ \E logL \in (IF model = Null THEN {ScoreFailure} ELSE DICOutcomes) :
            IF logL = ScoreFailure
            THEN /\ pc' = "break"
                 /\ UNCHANGED <<num_components, highest_DIC, best_model,
                                antiScores, scored>>
            ELSE \E outs \in [1..Len(OtherWords) -> DICOutcomes] :
                   LET scores == [j \in 1..Len(OtherWords) |->
                                    <<OtherWords[j], outs[j]>>] IN
                   IF scores = <<>> \/ \E j \in 1..Len(scores) :
                                         scores[j][2] = ScoreFailure
                   THEN /\ pc' = "raised"
                        /\ UNCHANGED <<num_components, highest_DIC, best_model,
                                       antiScores, scored>>
                   ELSE LET DIC == DICScore(logL, [j \in 1..Len(scores) |->
                                                     <<scores[j][1], scores[j][2][2]>>]) IN
                        /\ antiScores' = scores
                        /\ scored' = (num_components :> logL) @@ scored
                        /\ IF DICBetter(DIC, highest_DIC)
                           THEN highest_DIC' = DIC /\ best_model' = model
                           ELSE UNCHANGED <<highest_DIC, best_model>>
                        /\ num_components' = num_components + 1
                        /\ pc' = pc
  /\ UNCHANGED <<X, result, lowest_BIC>>
  /\ UNCHANGED <<rvars, cfgvars, cvars>>

\* Line 127.
DICReturn ==
  /\ \/ pc = "loop" /\ num_components > max_n_components
     \/ pc = "break"
  /\ result' = best_model
  /\ pc' = "done"
  /\ UNCHANGED <<X, num_components, best_model, log>>
  /\ UNCHANGED <<rvars, cfgvars, bvars, dvars, cvars>>

NextDIC == DICStart \/ DICIter \/ DICReturn

SpecDIC == InitDIC /\ [][NextDIC]_vars

\* C3: SelectorDIC.select() never propagates an exception.
DICNeverRaises == pc # "raised"

\* C8: the anti-likelihood list of a candidate model holds every corpus word
\* other than this_word exactly once, and never this_word.
DICExcludesThisWord ==
  DOMAIN scored # {} =>
    \A j \in 1..Len(hkeys) :
      Cardinality({a \in 1..Len(antiScores) : antiScores[a][1] = hkeys[j]})
        = (IF hkeys[j] = this_word THEN 0 ELSE 1)

\* C8's case: a search over a corpus of three words, this_word not the last
\* key, that scored two state counts and returned.
DICExcludesThisWordWitness ==
  /\ pc = "done"
  /\ Len(hkeys) = 3 /\ hkeys[3] # this_word
  /\ Len(antiScores) = 2
  /\ Cardinality(DOMAIN scored) >= 2
\* ============================================================= SelectorCV

\* Line 149: KFold() asks for the library's default fold count, 3 before
\* scikit-learn 0.22 and 5 since.
KFoldDefaults == {3, 5}

\* KFold(n_splits).split of n_samples sequences, no shuffling: the first
\* n_samples % n_splits folds hold n_samples // n_splits + 1 consecutive
\* sequences, the others n_samples // n_splits.  The test indices of fold f.
KFoldTest(n_samples, splits, f) ==
  LET size == n_samples \div splits
      extra == n_samples % splits
      start == (f - 1) * size + (IF f - 1 < extra THEN f - 1 ELSE extra)
      len == size + (IF f <= extra THEN 1 ELSE 0)
  IN (start + 1)..(start + len)

\* Line 145: len(self.sequences) < 3.
CVTooFew == nseq < 3

\* Lines 155-158: the fold's score, negative infinity when the fit failed
\* (None.score) or the score raised.
CVLogL(model, outcome) ==
  IF model = Null \/ outcome = ScoreFailure THEN NegInf ELSE outcome

\* Line 159: logL > highest_CV.
CVBetter(logL, highest) == GtExt(logL, highest)

\* Line 162: self.X, self.lengths = self.hwords[self.this_word].
CVKeepFold == X

CVRestore == Full

\* The fold scores of the search.
CVOutcomes == {ScoreFailure, NegInf, Fin(0 - 1), Fin(0)}

MaxExt(a, b) == IF LtExt(a, b) THEN b ELSE a

InitCV ==
  /\ RecognizeUnused /\ BICUnused /\ DICUnused
  /\ this_word = "FISH" /\ hkeys = <<"FISH">>
  /\ nseq \in 1..MaxSeqs
  /\ dim = 1
  /\ n_splits \in KFoldDefaults
  /\ InitSelector
  /\ highest_CV = NegInf
  /\ best_num_components = min_n_components
  /\ fold = 1
  /\ lastFit = <<>>
  /\ splitCalls = 0
  /\ calls = 0
  /\ foldBest = EmptyDict

\* Lines 140-142.
CVStart ==
  /\ pc = "start"
  /\ highest_CV' = NegInf
  /\ best_num_components' = min_n_components
  /\ num_components' = min_n_components
  /\ pc' = "loop"
  /\ UNCHANGED <<X, best_model, result, log, fold, lastFit, splitCalls, calls,
                 foldBest>>
  /\ UNCHANGED <<rvars, cfgvars, bvars, dvars>>

\* Lines 144-146: inside the loop, a word of fewer than 3 sequences returns
\* base_model(3).
CVShort ==
  /\ pc = "loop" /\ num_components <= max_n_components /\ CVTooFew
  /\ \E ok \in BOOLEAN :
       /\ result' = BaseModel(3, X, ok)
       /\ lastFit' = <<Call(3, X, ok)>>
  /\ pc' = "done"
  /\ UNCHANGED <<X, num_components, best_model, log, highest_CV,
                 best_num_components, fold, splitCalls, calls, foldBest>>
  /\ UNCHANGED <<rvars, cfgvars, bvars, dvars>>

\* Lines 149-150: KFold().split(self.sequences) raises ValueError when asked
\* for more folds than there are sequences.
CVSplit ==
  /\ pc = "loop" /\ num_components <= max_n_components /\ ~CVTooFew
  /\ splitCalls' = splitCalls + 1
  /\ IF n_splits > nseq
     THEN pc' = "raised" /\ fold' = fold
     ELSE pc' = "fold" /\ fold' = 1
  /\ UNCHANGED <<X, num_components, best_model, result, log, highest_CV,
                 best_num_components, lastFit, calls, foldBest>>
  /\ UNCHANGED <<rvars, cfgvars, bvars, dvars>>

\* Lines 150-161: one fold.
CVFold ==
  /\ pc = "fold"
  /\ X' = Full \ KFoldTest(nseq, n_splits, fold)
  /\ \E ok \in BOOLEAN, outcome \in CVOutcomes :
       LET model == BaseModel(num_components, X', ok)
           logL == CVLogL(model, outcome)
       IN
       /\ lastFit' = <<Call(num_components, X', ok)>>
       /\ IF CVBetter(logL, highest_CV)
          THEN highest_CV' = logL /\ best_num_components' = num_components
          ELSE UNCHANGED <<highest_CV, best_num_components>>
       /\ foldBest' = (num_components :>
                         (IF num_components \in DOMAIN foldBest
                          THEN MaxExt(foldBest[num_components], logL)
                          ELSE logL)) @@ foldBest
  /\ IF fold < n_splits
     THEN fold' = fold + 1 /\ UNCHANGED <<pc, num_components>>
     ELSE fold' = fold /\ pc' = "loop" /\ num_components' = num_components + 1
  /\ UNCHANGED <<best_model, result, log, splitCalls, calls>>
  /\ UNCHANGED <<rvars, cfgvars, bvars, dvars>>

\* Lines 162-164.
CVFinish ==
  /\ pc = "loop" /\ num_components > max_n_components
  /\ X' = CVRestore
  /\ \E ok \in BOOLEAN :
       /\ result' = BaseModel(best_num_components, X', ok)
       /\ lastFit' = <<Call(best_num_components, X', ok)>>
  /\ best_model' = result'
  /\ pc' = "done"
  /\ UNCHANGED <<num_components, log, highest_CV, best_num_components, fold,
                 splitCalls, calls, foldBest>>
  /\ UNCHANGED <<rvars, cfgvars, bvars, dvars>>

\* select() is called again on the same instance, whose fields are as the
\* last call left them.
CVAgain ==
  /\ pc \in {"done", "raised"}
  /\ calls < MaxCalls
  /\ calls' = calls + 1
  /\ pc' = "start"
  /\ result' = Null
  /\ best_model' = Null
  /\ lastFit' = <<>>
  /\ splitCalls' = 0
  /\ foldBest' = EmptyDict
  /\ UNCHANGED <<X, num_components, log, highest_CV, best_num_components, fold>>
  /\ UNCHANGED <<rvars, cfgvars, bvars, dvars>>

NextCV == CVStart \/ CVShort \/ CVSplit \/ CVFold \/ CVFinish \/ CVAgain

SpecCV == InitCV /\ [][NextCV]_vars
\* What the latest base_model call returned.
LastFitted ==
  IF lastFit[1].ok THEN Model(lastFit[1].n, lastFit[1].X) ELSE Null

\* C2: for a word of fewer than 3 sequences SelectorCV.select() returns the
\* result of fit(3) on the word's full data, whatever min_n_components and
\* max_n_components are, and never invokes KFold.split.
CVShortCircuits ==
  (pc = "done" /\ nseq < 3) =>
    /\ lastFit = <<Call(3, Full, lastFit[1].ok)>>
    /\ result = LastFitted
    /\ splitCalls = 0

\* C6: whenever SelectorCV.select() returns, self.X is the word's full data
\* and the model returned was fitted on the full data, on both return paths and
\* on a later call on the same instance as well.
CVRestoresFullData ==
  pc = "done" =>
    /\ X = Full
    /\ lastFit[1].X = Full
    /\ result = LastFitted

\* C6's case: a second select() call on the instance that went through the
\* folds of two state counts and returned a fitted model.
CVRestoresFullDataWitness ==
  /\ pc = "done"
  /\ calls >= 1
  /\ nseq >= 3
  /\ Cardinality(DOMAIN foldBest) >= 2
  /\ result # Null

\* C7: for a word of k >= 3 sequences SelectorCV.select() asks the partitioner
\* for min(5, k) folds, at least 2 and never more than k, so that no
\* partitioning error leaves select().
CVFoldCountFits ==
  nseq >= 3 =>
    /\ pc # "raised"
    /\ splitCalls > 0 =>
         /\ n_splits = (IF nseq < 5 THEN nseq ELSE 5)
         /\ 2 <= n_splits
         /\ n_splits <= nseq

\* The winner C10 names: the first state count of the range whose best fold
\* score is the highest of the grid (min_n_components when the grid is empty).
GridWinner ==
  IF DOMAIN foldBest = {} THEN min_n_components
  ELSE CHOOSE n \in DOMAIN foldBest :
         /\ \A m \in DOMAIN foldBest : LeExt(foldBest[m], foldBest[n])
         /\ \A m \in DOMAIN foldBest : foldBest[m] = foldBest[n] => n <= m

\* When select() returns for a word of at least 3 sequences: every state count
\* of the range went through every fold, the winner is GridWinner, and the
\* model returned is the winner's fit on the full data.
CVGridSearch ==
  (pc = "done" /\ nseq >= 3) =>
    /\ DOMAIN foldBest = min_n_components..max_n_components
    /\ splitCalls = Cardinality(min_n_components..max_n_components)
    /\ best_num_components = GridWinner
    /\ lastFit = <<Call(GridWinner, Full, lastFit[1].ok)>>
    /\ result = LastFitted

\* C10: for a word of at least 3 sequences SelectorCV.select() evaluates the
\* whole (state count, fold) grid, a failure counting as negative infinity, and
\* returns fit(n) on the full data for the n holding the highest single fold
\* score (the first such n; min_n_components when every score is negative
\* infinity).
CVEvaluatesGrid ==
  /\ nseq >= 3 => pc # "raised"
  /\ CVGridSearch

====
